---- MODULE Spec2Model ----
(***************************************************************************)
(* Apollo Server integration for Azure Functions (src/src/index.ts,        *)
(* src/src/errors.ts): the HTTP handler returned by                        *)
(* startServerAndCreateHandler, its request normalization, response        *)
(* translation and error classification.                                   *)
(*                                                                         *)
(* JavaScript strings are modelled as sequences of one-character strings,  *)
(* so that toLowerCase, startsWith, concatenation and substring search are *)
(* computed rather than assumed.  JavaScript values are records tagged by  *)
(* a field t.                                                              *)
(***************************************************************************)
EXTENDS Integers, Sequences, FiniteSets, TLC

VARIABLES pc, req, cloneReq, normalized, jsonCalls, engineCalls,
          engineOutcome, errLog, response, rejected, completed,
          context, contextCalls, events, stream, startCalls, startup,
          frames, probe

vars == <<pc, req, cloneReq, normalized, jsonCalls, engineCalls,
          engineOutcome, errLog, response, rejected, completed,
          context, contextCalls, events, stream, startCalls, startup,
          frames, probe>>

----------------------------------------------------------------------------
(* String literals of the source, and the texts used as inputs.            *)

S_POST == <<"P", "O", "S", "T">>
S_GET == <<"G", "E", "T">>
S_content_type == <<"c", "o", "n", "t", "e", "n", "t", "-", "t", "y", "p", "e">>
S_Content_Type == <<"C", "o", "n", "t", "e", "n", "t", "-", "T", "y", "p", "e">>
S_CoNtEnT_TyPe == <<"C", "o", "N", "t", "E", "n", "T", "-", "T", "y", "P", "e">>
S_application_json == <<"a", "p", "p", "l", "i", "c", "a", "t", "i", "o", "n", "/", "j", "s", "o", "n">>
S_APPLICATION_JSON_charset == <<"A", "P", "P", "L", "I", "C", "A", "T", "I", "O", "N", "/", "J", "S", "O", "N", ";", " ", "c", "h", "a", "r", "s", "e", "t", "=", "u", "t", "f", "-", "8">>
S_Application_Json == <<"A", "p", "p", "l", "i", "c", "a", "t", "i", "o", "n", "/", "J", "s", "o", "n">>
S_text_plain == <<"t", "e", "x", "t", "/", "p", "l", "a", "i", "n">>
S_No_method == <<"N", "o", " ", "m", "e", "t", "h", "o", "d">>
S_Invalid_request_URL_ == <<"I", "n", "v", "a", "l", "i", "d", " ", "r", "e", "q", "u", "e", "s", "t", " ", "U", "R", "L", ":", " ">>
S_Malformed_URL == <<"M", "a", "l", "f", "o", "r", "m", "e", "d", " ", "U", "R", "L">>
S_Invalid_JSON_in_request_body_ == <<"I", "n", "v", "a", "l", "i", "d", " ", "J", "S", "O", "N", " ", "i", "n", " ", "r", "e", "q", "u", "e", "s", "t", " ", "b", "o", "d", "y", ":", " ">>
S_Malformed_JSON == <<"M", "a", "l", "f", "o", "r", "m", "e", "d", " ", "J", "S", "O", "N">>
S_Bad_Request == <<"B", "a", "d", " ", "R", "e", "q", "u", "e", "s", "t">>
S_Internal_Server_Error == <<"I", "n", "t", "e", "r", "n", "a", "l", " ", "S", "e", "r", "v", "e", "r", " ", "E", "r", "r", "o", "r">>
S_Internal_server_error == <<"I", "n", "t", "e", "r", "n", "a", "l", " ", "s", "e", "r", "v", "e", "r", " ", "e", "r", "r", "o", "r">>
S_Invalid_status_code_ == <<"I", "n", "v", "a", "l", "i", "d", " ", "s", "t", "a", "t", "u", "s", " ", "c", "o", "d", "e", ":", " ">>
S_An_unexpected_error_occurred == <<"A", "n", " ", "u", "n", "e", "x", "p", "e", "c", "t", "e", "d", " ", "e", "r", "r", "o", "r", " ", "o", "c", "c", "u", "r", "r", "e", "d">>
S_Transfer_Encoding == <<"T", "r", "a", "n", "s", "f", "e", "r", "-", "E", "n", "c", "o", "d", "i", "n", "g">>
S_transfer_encoding == <<"t", "r", "a", "n", "s", "f", "e", "r", "-", "e", "n", "c", "o", "d", "i", "n", "g">>
S_chunked == <<"c", "h", "u", "n", "k", "e", "d">>
S_content_length == <<"c", "o", "n", "t", "e", "n", "t", "-", "l", "e", "n", "g", "t", "h">>
S_Invalid_URL == <<"I", "n", "v", "a", "l", "i", "d", " ", "U", "R", "L">>
S_Invalid_JSON == <<"I", "n", "v", "a", "l", "i", "d", " ", "J", "S", "O", "N">>
S_Not_implemented == <<"N", "o", "t", " ", "i", "m", "p", "l", "e", "m", "e", "n", "t", "e", "d">>
S_Not_Found == <<"N", "o", "t", " ", "F", "o", "u", "n", "d">>
S_Service_Unavailable == <<"S", "e", "r", "v", "i", "c", "e", " ", "U", "n", "a", "v", "a", "i", "l", "a", "b", "l", "e">>
S_http_scheme == <<"h", "t", "t", "p", ":", "/", "/">>
S_url_query == <<"h", "t", "t", "p", ":", "/", "/", "h", "/", "g", "?", "q", "=", "1">>
S_url_plain == <<"h", "t", "t", "p", ":", "/", "/", "h", "/", "g">>
S_url_bad == <<"n", "o", "t", " ", "a", " ", "u", "r", "l">>
S_json_good == <<"{", "\"", "q", "\"", ":", "1", "}">>
S_json_bad == <<"{", " ", "b", "a", "d">>
S_Unexpected_token == <<"U", "n", "e", "x", "p", "e", "c", "t", "e", "d", " ", "t", "o", "k", "e", "n", " ", "b">>
S_Unexpected_end == <<"U", "n", "e", "x", "p", "e", "c", "t", "e", "d", " ", "e", "n", "d", " ", "o", "f", " ", "J", "S", "O", "N", " ", "i", "n", "p", "u", "t">>
S_secret == <<"d", "b", " ", "s", "e", "c", "r", "e", "t">>
S_other == <<"o", "t", "h", "e", "r">>
S_gzip == <<"g", "z", "i", "p">>
S_ok == <<"{", "\"", "d", "a", "t", "a", "\"", ":", "1", "}">>
S_accent == <<"U+00E9", "t", "U+00E9">>
S_Cannot_read == <<"C", "a", "n", "n", "o", "t", " ", "r", "e", "a", "d">>
S_is_not_a_function == <<"r", "e", "q", ".", "c", "l", "o", "n", "e", " ", "i", "s", " ", "n", "o", "t", " ", "a", " ", "f", "u", "n", "c", "t", "i", "o", "n">>
S_Invalid_request_URL == <<"I", "n", "v", "a", "l", "i", "d", " ", "r", "e", "q", "u", "e", "s", "t", " ", "U", "R", "L">>

----------------------------------------------------------------------------
(* String primitives of the JavaScript runtime.                            *)

UpperCase == <<"A", "B", "C", "D", "E", "F", "G", "H", "I", "J", "K", "L", "M", "N", "O", "P", "Q", "R", "S", "T", "U", "V", "W", "X", "Y", "Z">>

LowerCase == <<"a", "b", "c", "d", "e", "f", "g", "h", "i", "j", "k", "l", "m", "n", "o", "p", "q", "r", "s", "t", "u", "v", "w", "x", "y", "z">>

Digits == <<"0", "1", "2", "3", "4", "5", "6", "7", "8", "9">>

UpperCaseLetters == {UpperCase[i] : i \in DOMAIN UpperCase}

LowerCaseOf ==
  [c \in UpperCaseLetters |-> LowerCase[CHOOSE i \in DOMAIN UpperCase : UpperCase[i] = c]]

ToLowerChar(c) == IF c \in UpperCaseLetters THEN LowerCaseOf[c] ELSE c

ToLowerCase(s) == [i \in DOMAIN s |-> ToLowerChar(s[i])]

StartsWith(s, prefix) ==
  /\ Len(s) >= Len(prefix)
  /\ SubSeq(s, 1, Len(prefix)) = prefix

Includes(s, sub) ==
  \E i \in 0..(Len(s) - Len(sub)) : SubSeq(s, i + 1, i + Len(sub)) = sub

IndexOf(s, c) ==
  IF \E i \in DOMAIN s : s[i] = c
  THEN CHOOSE i \in DOMAIN s : s[i] = c /\ \A j \in 1..(i - 1) : s[j] # c
  ELSE 0

RECURSIVE NatToString(_)
NatToString(n) ==
  IF n < 10 THEN <<Digits[n + 1]>>
  ELSE NatToString(n \div 10) \o <<Digits[(n % 10) + 1]>>

NumberToString(n) == IF n < 0 THEN <<"-">> \o NatToString(0 - n) ELSE NatToString(n)

----------------------------------------------------------------------------
(* JavaScript values.                                                      *)

Undefined == [t |-> "undefined"]

Null == [t |-> "null"]

Str(s) == [t |-> "string", v |-> s]

Num(n) == [t |-> "number", v |-> n]

PlainObject(hasMessage, message) ==
  [t |-> "object", hasMessage |-> hasMessage, message |-> message]

Error(class, message) == [t |-> "error", class |-> class, message |-> message]

Truthy(v) ==
  CASE v.t = "undefined" -> FALSE
    [] v.t = "null" -> FALSE
    [] v.t = "string" -> v.v # <<>>
    [] v.t = "number" -> v.v # 0
    [] OTHER -> TRUE

Return(v) == [threw |-> FALSE, value |-> v]

Throw(e) == [threw |-> TRUE, error |-> e]

----------------------------------------------------------------------------
(* src/src/errors.ts                                                       *)

HttpError(message, statusCode, exposeMessage) ==
  [t |-> "error", class |-> "HttpError", message |-> message,
   statusCode |-> statusCode, exposeMessage |-> exposeMessage]

BadRequestError(message, exposeMessage) ==
  [HttpError(message, 400, exposeMessage) EXCEPT !.class = "BadRequestError"]

(* Mutant: exposeMessage is passed as true.                                *)
InternalServerError_Exposed(message) ==
  [HttpError(message, 500, TRUE) EXCEPT !.class = "InternalServerError"]

InternalServerError(message) ==
  [HttpError(message, 500, FALSE) EXCEPT !.class = "InternalServerError"]

HttpErrorClasses == {"HttpError", "BadRequestError", "InternalServerError"}

InstanceOfError(e) == e.t = "error"

InstanceOfHttpError(e) == e.t = "error" /\ e.class \in HttpErrorClasses

----------------------------------------------------------------------------
(* src/src/index.ts: helpers                                               *)

(* The default value of getErrorMessage's second parameter (line 28).       *)
getErrorMessageFallback(arg) ==
  IF arg.t = "undefined" THEN S_An_unexpected_error_occurred ELSE arg.v

(* Mutant: only Error instances and strings are recognised.                *)
getErrorMessage_NoObjects(error, fallback) ==
  IF InstanceOfError(error) THEN error.message
  ELSE IF error.t = "string" THEN error.v
  ELSE fallback

getErrorMessage(error, fallback) ==
  IF InstanceOfError(error) THEN error.message
  ELSE IF error.t = "string" THEN error.v
  ELSE IF Truthy(error) /\ error.t = "object" /\ error.hasMessage
          /\ error.message.t = "string"
       THEN error.message.v
  ELSE fallback

(* Mutant: the engine's status is dropped.                                 *)
normalizeStatusCode_Always200(status) == Return(200)

(* Mutant: the lower limit is excluded.                                    *)
normalizeStatusCode_OffByOne(status) ==
  IF status.t \in {"undefined", "null"} THEN Return(200)
  ELSE IF status.v <= 100 \/ status.v > 599
       THEN Throw(InternalServerError(S_Invalid_status_code_ \o NumberToString(status.v)))
  ELSE Return(status.v)

normalizeStatusCode(status) ==
  IF status.t \in {"undefined", "null"} THEN Return(200)
  ELSE IF status.v < 100 \/ status.v > 599
       THEN Throw(InternalServerError(S_Invalid_status_code_ \o NumberToString(status.v)))
  ELSE Return(status.v)

----------------------------------------------------------------------------
(* The platform request (@azure/functions HttpRequest): Headers, URL,      *)
(* clone() and json().                                                     *)

HeadersGet(headers, name) ==
  LET hits == {i \in DOMAIN headers : ToLowerCase(headers[i].name) = ToLowerCase(name)}
  IN IF hits = {} THEN Null
     ELSE Str(headers[CHOOSE i \in hits : \A j \in hits : i <= j].value)

HeadersEntries(headers) ==
  [i \in DOMAIN headers |-> [name |-> ToLowerCase(headers[i].name), value |-> headers[i].value]]

URLParse(url) ==
  IF ~StartsWith(url, S_http_scheme) THEN Throw(Error("TypeError", S_Invalid_URL))
  ELSE LET q == IndexOf(url, "?")
       IN Return([search |-> IF q = 0 \/ q = Len(url) THEN <<>> ELSE SubSeq(url, q, Len(url))])

JSONParse(text) ==
  IF text = S_json_good THEN Return([t |-> "json", text |-> text])
  ELSE IF text = <<>> THEN Throw(Error("SyntaxError", S_Unexpected_end))
  ELSE Throw(Error("SyntaxError", S_Unexpected_token))

ReqJson(r) == JSONParse(r.body)

(* Mutant: a failing clone() is tolerated and the request itself is used.  *)
ReqClone_Fallback(r) == Return([r EXCEPT !.id = "clone"])

ReqClone(r) ==
  IF r.clone = "ok" THEN Return([r EXCEPT !.id = "clone"])
  ELSE IF r.clone = "missing" THEN Throw(Error("TypeError", S_is_not_a_function))
  ELSE Throw(Error("Error", S_Not_implemented))

----------------------------------------------------------------------------
(* Apollo Server's HeaderMap and plain objects built from entries.         *)

MapSet(map, key, value) ==
  IF \E i \in DOMAIN map : map[i].name = key
  THEN [i \in DOMAIN map |-> IF map[i].name = key THEN [name |-> key, value |-> value] ELSE map[i]]
  ELSE Append(map, [name |-> key, value |-> value])

HeaderMapSet(map, key, value) == MapSet(map, ToLowerCase(key), value)

(* Mutant: the engine's headers are not spread into the object.            *)
ObjectFromEntries_Empty(entries) == <<>>

RECURSIVE ObjectFromEntries(_)
ObjectFromEntries(entries) ==
  IF entries = <<>> THEN <<>>
  ELSE MapSet(ObjectFromEntries(SubSeq(entries, 1, Len(entries) - 1)),
              entries[Len(entries)].name, entries[Len(entries)].value)

Utf8Length(c) == IF c = "U+00E9" THEN 2 ELSE 1

(* Mutant: the length in characters, as string.length gives.               *)
ByteLength_CharCount(s) == Len(s)

RECURSIVE ByteLength(_)
ByteLength(s) == IF s = <<>> THEN 0 ELSE Utf8Length(Head(s)) + ByteLength(Tail(s))

----------------------------------------------------------------------------
(* src/src/index.ts: request normalization                                 *)

RECURSIVE normalizeHeadersFrom(_)
normalizeHeadersFrom(entries) ==
  IF entries = <<>> THEN <<>>
  ELSE HeaderMapSet(normalizeHeadersFrom(SubSeq(entries, 1, Len(entries) - 1)),
                    entries[Len(entries)].name, entries[Len(entries)].value)

normalizeHeaders(r) == normalizeHeadersFrom(HeadersEntries(r.headers))

(* Mutant: the content-type value is compared without toLowerCase().       *)
parseBodyReads_CaseSensitive(r) ==
  /\ r.method = Str(S_POST)
  /\ LET contentType == HeadersGet(r.headers, S_content_type)
     IN /\ contentType.t = "string"
        /\ StartsWith(contentType.v, S_application_json)

(* Mutant: a JSON body is read whatever the method.                         *)
parseBodyReads_AnyMethod(r) ==
  LET contentType == HeadersGet(r.headers, S_content_type)
  IN /\ contentType.t = "string"
     /\ StartsWith(ToLowerCase(contentType.v), S_application_json)

(* Mutant: every POST body is read, whatever the content-type.              *)
parseBodyReads_AnyContentType(r) == r.method = Str(S_POST)

parseBodyReads(r) ==
  /\ r.method = Str(S_POST)
  /\ LET contentType == HeadersGet(r.headers, S_content_type)
     IN /\ contentType.t = "string"
        /\ StartsWith(ToLowerCase(contentType.v), S_application_json)

(* Mutant: a body that fails to parse is taken to be null.                  *)
parseBodySettle_NullOnError(j) == IF j.threw THEN Return(Null) ELSE Return(j.value)

parseBodySettle(j) ==
  IF j.threw
  THEN Throw(BadRequestError(S_Invalid_JSON_in_request_body_ \o getErrorMessage(j.error, S_Malformed_JSON), TRUE))
  ELSE Return(j.value)

parseBody(r) == IF parseBodyReads(r) THEN parseBodySettle(ReqJson(r)) ELSE Return(Null)

(* Mutant: only null and undefined methods are rejected, not the empty string. *)
normalizeRequestHead_NullishOnly(r) ==
  IF r.method.t \in {"null", "undefined"} THEN Throw(BadRequestError(S_No_method, TRUE))
  ELSE LET u == URLParse(r.url)
       IN IF u.threw
          THEN Throw(BadRequestError(S_Invalid_request_URL_ \o getErrorMessage(u.error, S_Malformed_URL), TRUE))
          ELSE Return([method |-> r.method.v, headers |-> normalizeHeaders(r),
                       search |-> u.value.search, body |-> Undefined])

(* Mutant: a URL that fails to parse is taken to have an empty query string. *)
normalizeRequestHead_UrlUnchecked(r) ==
  IF ~Truthy(r.method) THEN Throw(BadRequestError(S_No_method, TRUE))
  ELSE LET u == URLParse(r.url)
       IN Return([method |-> r.method.v, headers |-> normalizeHeaders(r),
                  search |-> IF u.threw THEN <<>> ELSE u.value.search,
                  body |-> Undefined])

(* Mutant: the URL is parsed before the method is checked.                  *)
normalizeRequestHead_UrlFirst(r) ==
  LET u == URLParse(r.url)
  IN IF u.threw
     THEN Throw(BadRequestError(S_Invalid_request_URL_ \o getErrorMessage(u.error, S_Malformed_URL), TRUE))
     ELSE IF ~Truthy(r.method) THEN Throw(BadRequestError(S_No_method, TRUE))
     ELSE Return([method |-> r.method.v, headers |-> normalizeHeaders(r),
                  search |-> u.value.search, body |-> Undefined])

normalizeRequestHead(r) ==
  IF ~Truthy(r.method) THEN Throw(BadRequestError(S_No_method, TRUE))
  ELSE LET u == URLParse(r.url)
       IN IF u.threw
          THEN Throw(BadRequestError(S_Invalid_request_URL_ \o getErrorMessage(u.error, S_Malformed_URL), TRUE))
          ELSE Return([method |-> r.method.v, headers |-> normalizeHeaders(r),
                       search |-> u.value.search, body |-> Undefined])

(* Mutant: a body that failed to parse is passed on as null.                *)
normalizeRequestBody_IgnoresError(head, b) ==
  Return([head EXCEPT !.body = IF b.threw THEN Null ELSE b.value])

normalizeRequestBody(head, b) ==
  IF b.threw THEN b ELSE Return([head EXCEPT !.body = b.value])

normalizeRequest(r) ==
  LET h == normalizeRequestHead(r)
  IN IF h.threw THEN h ELSE normalizeRequestBody(h.value, parseBody(r))

----------------------------------------------------------------------------
(* src/src/index.ts: response translation and the catch block              *)

translateResult(result) ==
  IF result.t # "result" THEN Throw(Error("TypeError", S_Cannot_read))
  ELSE IF result.body.kind = "chunked"
  THEN LET s == normalizeStatusCode(result.status)
       IN IF s.threw THEN s
          ELSE Return([status |-> s.value,
                       headers |-> MapSet(ObjectFromEntries(result.headers),
                                          S_Transfer_Encoding, S_chunked),
                       body |-> [t |-> "stream", source |-> result.body]])
  ELSE LET s == normalizeStatusCode(result.status)
       IN IF s.threw THEN s
          ELSE Return([status |-> s.value,
                       headers |-> MapSet(ObjectFromEntries(result.headers),
                                          S_content_length,
                                          NumberToString(ByteLength(result.body.string))),
                       body |-> Str(result.body.string)])

(* Mutant: the message of any Error instance is returned.                   *)
catchBlock_ErrorMessage(e) ==
  IF InstanceOfHttpError(e)
  THEN [status |-> e.statusCode,
        body |-> Str(IF e.exposeMessage THEN e.message ELSE S_Bad_Request)]
  ELSE [status |-> 500,
        body |-> Str(IF InstanceOfError(e) THEN e.message ELSE S_Internal_Server_Error)]

(* Mutant: the exposeMessage flag is ignored.                               *)
catchBlock_AlwaysExposes(e) ==
  IF InstanceOfHttpError(e)
  THEN [status |-> e.statusCode, body |-> Str(e.message)]
  ELSE [status |-> 500, body |-> Str(S_Internal_Server_Error)]

catchBlock(e) ==
  IF InstanceOfHttpError(e)
  THEN [status |-> e.statusCode,
        body |-> Str(IF e.exposeMessage THEN e.message ELSE S_Bad_Request)]
  ELSE [status |-> 500, body |-> Str(S_Internal_Server_Error)]

(* Mutant: only Error instances are caught.                                 *)
handlerSettle_ErrorsOnly(tr) ==
  IF tr.threw /\ InstanceOfError(tr.error) THEN Return(catchBlock(tr.error)) ELSE tr

handlerSettle(tr) == IF tr.threw THEN Return(catchBlock(tr.error)) ELSE tr

executeSettle(o) == IF o.t = "throw" THEN Throw(o.error) ELSE translateResult(o.result)

handlerTry(r, o) ==
  LET c == ReqClone(r)
      n == normalizeRequest(r)
  IN IF c.threw THEN c
     ELSE IF n.threw THEN n
     ELSE executeSettle(o)

handler(r, o) == handlerSettle(handlerTry(r, o))

----------------------------------------------------------------------------
(* Inputs: the requests the platform delivers and the outcomes of the      *)
(* engine's executeHTTPGraphQLRequest.                                     *)

Methods == {Null, Undefined, Str(<<>>), Str(S_GET), Str(S_POST)}

Urls == {S_url_query, S_url_plain, S_url_bad}

ContentTypeNames == {S_content_type, S_Content_Type, S_CoNtEnT_TyPe}

ContentTypeValues ==
  {S_application_json, S_APPLICATION_JSON_charset, S_Application_Json, S_text_plain}

HeaderLists ==
  {<<>>} \cup {<<[name |-> n, value |-> v]>> : n \in ContentTypeNames, v \in ContentTypeValues}

Bodies == {S_json_good, S_json_bad, <<>>}

Requests ==
  [id : {"original"}, method : Methods, url : Urls, headers : HeaderLists,
   body : Bodies, clone : {"ok", "throws", "missing"}, bodyUsed : {FALSE}]

Messages == {S_secret, S_other}

Statuses == {Undefined, Null, Num(-1), Num(0), Num(99), Num(100), Num(200), Num(599), Num(600)}

ResultHeaders ==
  {<<>>,
   <<[name |-> S_content_type, value |-> S_application_json]>>,
   <<[name |-> S_transfer_encoding, value |-> S_gzip],
     [name |-> S_content_length, value |-> <<"9">>]>>}

ResultBodies ==
  {[kind |-> "complete", string |-> S_ok],
   [kind |-> "complete", string |-> S_accent],
   [kind |-> "chunked", chunks |-> <<>>, throws |-> FALSE, error |-> Undefined],
   [kind |-> "chunked", chunks |-> <<S_ok, S_accent>>, throws |-> FALSE, error |-> Undefined]}

(* An engine chunk sequence that fails after its first chunk.              *)
FailingBodies ==
  {[kind |-> "chunked", chunks |-> <<S_ok>>, throws |-> TRUE, error |-> Error("Error", S_secret)]}

Results == [t : {"result"}, status : Statuses, headers : ResultHeaders, body : ResultBodies]

ErrorStatuses == {400, 404, 500, 503, 700}

ThrownValues ==
  {HttpError(m, s, x) : m \in Messages, s \in ErrorStatuses, x \in BOOLEAN}
  \cup {BadRequestError(m, x) : m \in Messages, x \in BOOLEAN}
  \cup {InternalServerError(m) : m \in Messages}
  \cup {Error("Error", m) : m \in Messages}
  \cup {Str(m) : m \in Messages}
  \cup {PlainObject(TRUE, Str(m)) : m \in Messages}
  \cup {PlainObject(FALSE, Undefined), Null, Undefined, Num(42)}

EngineOutcomes ==
  {[t |-> "return", result |-> res] : res \in Results}
  \cup {[t |-> "return", result |-> Undefined]}
  \cup {[t |-> "throw", error |-> e] : e \in ThrownValues}

----------------------------------------------------------------------------
(* The handler as a state machine.  An invocation is suspended at the two  *)
(* awaits of the handler: req.json() and executeHTTPGraphQLRequest.        *)

None == [t |-> "none"]

MaxInvocations == 2

MaxContextCalls == 2

MaxRequests == 4

MaxConcurrent == 2

(* The call frame of one handler invocation: the parameters and the const  *)
(* declarations of the async arrow function (lines 137-151).               *)
NoFrame ==
  [pc |-> "idle", request |-> None, context |-> None, req |-> None,
   cloneReq |-> None, normalized |-> None, outcome |-> None,
   contextCalls |-> <<>>, errLog |-> <<>>, response |-> None]

NoStream ==
  [state |-> "none", requested |-> 0, pulled |-> 0, delivered |-> <<>>,
   sourceReturned |-> FALSE, error |-> None]

Init ==
  /\ pc = "new"
  /\ req = None
  /\ cloneReq = None
  /\ normalized = None
  /\ jsonCalls = 0
  /\ engineCalls = 0
  /\ engineOutcome = None
  /\ errLog = <<>>
  /\ response = None
  /\ rejected = FALSE
  /\ completed = 0
  /\ context = None
  /\ contextCalls = <<>>
  /\ events = <<>>
  /\ stream = NoStream
  /\ startCalls = 0
  /\ startup = "none"
  /\ frames = [i \in 1..MaxConcurrent |-> NoFrame]
  /\ probe = None

(* Mutant: the handler is returned without the background start.          *)
startServerAndCreateHandler_NoStart ==
  /\ pc = "new"
  /\ pc' = "idle"
  /\ UNCHANGED <<req, cloneReq, normalized, jsonCalls, engineCalls, engineOutcome,
                 errLog, response, rejected, completed, context, contextCalls,
                 events, stream, startCalls, startup>>
  /\ UNCHANGED <<frames, probe>>

(* startServerAndCreateHandler(server, options): the background start is   *)
(* requested (line 136) and the handler is returned (line 137).            *)
startServerAndCreateHandler ==
  /\ pc = "new"
  /\ pc' = "idle"
  /\ startCalls' = startCalls + 1
  /\ startup' = "pending"
  /\ UNCHANGED <<req, cloneReq, normalized, jsonCalls, engineCalls, engineOutcome,
                 errLog, response, rejected, completed, context, contextCalls,
                 events, stream>>
  /\ UNCHANGED <<frames, probe>>

(* The engine's background start settles, successfully or not.             *)
StartSettle(ok) ==
  /\ startup = "pending"
  /\ startup' = IF ok THEN "started" ELSE "failed"
  /\ UNCHANGED <<pc, req, cloneReq, normalized, jsonCalls, engineCalls, engineOutcome,
                 errLog, response, rejected, completed, context, contextCalls,
                 events, stream, startCalls>>
  /\ UNCHANGED <<frames, probe>>

(* Mutant: the first chunk is fetched when the body is built.              *)
streamOf_Eager(resp) ==
  IF resp.body.t = "stream"
  THEN IF resp.body.source.chunks # <<>>
       THEN [NoStream EXCEPT !.state = "open", !.pulled = 1]
       ELSE [NoStream EXCEPT !.state = "open"]
  ELSE NoStream

(* toUint8ArrayStream(source) is called to build the response body (line   *)
(* 171): the generator object exists, and has pulled nothing.              *)
streamOf(resp) ==
  IF resp.body.t = "stream" THEN [NoStream EXCEPT !.state = "open"]
  ELSE NoStream

(* Mutant: only unexpected errors are logged.                              *)
Finish_LogsUnexpectedOnly(tr) ==
  LET out == handlerSettle(tr)
  IN /\ pc' = "done"
     /\ errLog' = IF tr.threw /\ ~InstanceOfHttpError(tr.error)
                  THEN Append(errLog, tr.error) ELSE errLog
     /\ rejected' = out.threw
     /\ response' = IF out.threw THEN None ELSE out.value
     /\ stream' = IF out.threw THEN NoStream ELSE streamOf(out.value)

(* The invocation ends: the try block produced tr (lines 143-203).         *)
Finish(tr) ==
  LET out == handlerSettle(tr)
  IN /\ pc' = "done"
     /\ errLog' = IF tr.threw THEN Append(errLog, tr.error) ELSE errLog
     /\ rejected' = out.threw
     /\ response' = IF out.threw THEN None ELSE out.value
     /\ stream' = IF out.threw THEN NoStream ELSE streamOf(out.value)

(* executeHTTPGraphQLRequest is called with the canonical request n.       *)
Execute(n) ==
  /\ pc' = "executing"
  /\ normalized' = n
  /\ engineCalls' = engineCalls + 1
  /\ UNCHANGED <<errLog, response, rejected, stream>>

(* Mutant: the request is cloned after normalizeRequest has read it.       *)
invokeEvents_CloneAfterRead(r) ==
  IF ReqClone(r).threw THEN <<"clone">>
  ELSE IF normalizeRequestHead(r).threw THEN <<"clone">>
  ELSE IF parseBodyReads(r) THEN <<"json", "clone">>
  ELSE <<"clone", "execute">>

(* The calls the handler makes, in order, up to its first suspension       *)
(* (lines 148-151): req.clone(), then req.json() or the engine.            *)
invokeEvents(r) ==
  IF ReqClone(r).threw THEN <<"clone">>
  ELSE IF normalizeRequestHead(r).threw THEN <<"clone">>
  ELSE IF parseBodyReads(r) THEN <<"clone", "json">>
  ELSE <<"clone", "execute">>

(* The platform invokes the handler with request r: clone, then            *)
(* normalizeRequest up to its first suspension.                            *)
Invoke(r) ==
  /\ pc = "idle"
  /\ completed < MaxInvocations
  /\ UNCHANGED <<completed, contextCalls, startCalls, startup>>
  /\ context' = [invocationId |-> completed + 1]
  /\ events' = invokeEvents(r)
  /\ engineOutcome' = None
  /\ LET c == ReqClone(r)
         h == normalizeRequestHead(r)
     IN IF c.threw
        THEN /\ Finish(c)
             /\ req' = r
             /\ UNCHANGED <<cloneReq, normalized, jsonCalls, engineCalls>>
        ELSE /\ cloneReq' = c.value
             /\ IF h.threw
                THEN /\ Finish(h)
                     /\ req' = r
                     /\ UNCHANGED <<normalized, jsonCalls, engineCalls>>
                ELSE IF parseBodyReads(r)
                THEN /\ pc' = "reading"
                     /\ req' = [r EXCEPT !.bodyUsed = TRUE]
                     /\ jsonCalls' = jsonCalls + 1
                     /\ normalized' = h.value
                     /\ UNCHANGED <<engineCalls, errLog, response, rejected, stream>>
                ELSE /\ Execute(normalizeRequestBody(h.value, Return(Null)).value)
                     /\ req' = r
                     /\ UNCHANGED jsonCalls
  /\ UNCHANGED <<frames, probe>>

(* req.json() settles: parseBody and normalizeRequest complete.            *)
JsonSettle ==
  /\ pc = "reading"
  /\ LET n == normalizeRequestBody(normalized, parseBodySettle(ReqJson(req)))
     IN IF n.threw
        THEN /\ Finish(n)
             /\ normalized' = None
             /\ UNCHANGED <<engineCalls, events>>
        ELSE /\ Execute(n.value)
             /\ events' = Append(events, "execute")
  /\ UNCHANGED <<req, cloneReq, jsonCalls, engineOutcome, completed, context,
                 contextCalls, startCalls, startup>>
  /\ UNCHANGED <<frames, probe>>

(* Mutant: the context function is given the original request.             *)
contextThunk_OriginalReq(ctx, original, clone, n) ==
  [context |-> ctx, req |-> original, body |-> n.body]

(* The argument the zero-argument context thunk gives to the context       *)
(* function (lines 153-158).                                               *)
contextThunk(ctx, original, clone, n) ==
  [context |-> ctx, req |-> clone, body |-> n.body]

(* The engine invokes the context thunk it was given.                      *)
ContextCall ==
  /\ pc = "executing"
  /\ Len(contextCalls) < MaxContextCalls
  /\ contextCalls' = Append(contextCalls, contextThunk(context, req, cloneReq, normalized))
  /\ events' = Append(events, "context")
  /\ UNCHANGED <<pc, req, cloneReq, normalized, jsonCalls, engineCalls, engineOutcome,
                 errLog, response, rejected, completed, context, stream,
                 startCalls, startup>>
  /\ UNCHANGED <<frames, probe>>

(* executeHTTPGraphQLRequest settles with outcome o.                       *)
EngineSettle(o) ==
  /\ pc = "executing"
  /\ engineOutcome' = o
  /\ Finish(executeSettle(o))
  /\ UNCHANGED <<req, cloneReq, normalized, jsonCalls, engineCalls, completed,
                 context, contextCalls, events, startCalls, startup>>
  /\ UNCHANGED <<frames, probe>>

Utf8Bytes(c) == IF c = "U+00E9" THEN <<"0xC3", "0xA9">> ELSE <<c>>

RECURSIVE TextEncode(_)
TextEncode(s) == IF s = <<>> THEN <<>> ELSE Utf8Bytes(Head(s)) \o TextEncode(Tail(s))

(* Mutant: the encoded chunks are buffered into one.                       *)
toUint8ArrayStream_Buffered(st, source) ==
  IF st.state # "open" THEN [st EXCEPT !.requested = @ + 1]
  ELSE IF st.pulled < Len(source.chunks)
  THEN [st EXCEPT !.requested = @ + 1, !.pulled = @ + 1,
                  !.delivered = IF @ = <<>> THEN <<TextEncode(source.chunks[st.pulled + 1])>>
                                ELSE <<@[1] \o TextEncode(source.chunks[st.pulled + 1])>>]
  ELSE IF source.throws
  THEN [st EXCEPT !.requested = @ + 1, !.state = "failed", !.error = source.error]
  ELSE [st EXCEPT !.requested = @ + 1, !.state = "done"]

(* Mutant: a failure of the source ends the body as if it were complete.   *)
toUint8ArrayStream_SwallowsError(st, source) ==
  IF st.state # "open" THEN [st EXCEPT !.requested = @ + 1]
  ELSE IF st.pulled < Len(source.chunks)
  THEN [st EXCEPT !.requested = @ + 1, !.pulled = @ + 1,
                  !.delivered = Append(@, TextEncode(source.chunks[st.pulled + 1]))]
  ELSE [st EXCEPT !.requested = @ + 1, !.state = "done"]

(* One next() of the generator toUint8ArrayStream (lines 85-92): pull the  *)
(* next string of the source and yield its encoding; finish when the       *)
(* source finishes; fail with the source's error when the source throws.   *)
(* A generator that has finished answers done and pulls nothing.           *)
toUint8ArrayStream(st, source) ==
  IF st.state # "open" THEN [st EXCEPT !.requested = @ + 1]
  ELSE IF st.pulled < Len(source.chunks)
  THEN [st EXCEPT !.requested = @ + 1, !.pulled = @ + 1,
                  !.delivered = Append(@, TextEncode(source.chunks[st.pulled + 1]))]
  ELSE IF source.throws
  THEN [st EXCEPT !.requested = @ + 1, !.state = "failed", !.error = source.error]
  ELSE [st EXCEPT !.requested = @ + 1, !.state = "done"]

(* return() of the generator: suspended at the yield inside for await, it  *)
(* closes the source iterator (source.return()); never started, it just    *)
(* completes, and the loop at line 89 never obtained the source iterator.  *)
toUint8ArrayStreamReturn(st) ==
  IF st.state # "open" THEN st
  ELSE IF st.requested = 0 THEN [st EXCEPT !.state = "cancelled"]
  ELSE [st EXCEPT !.state = "cancelled", !.sourceReturned = TRUE]

(* The host asks the response body for its next chunk.                     *)
StreamNext ==
  /\ pc = "done"
  /\ stream.state # "none"
  /\ stream.requested < MaxRequests
  /\ stream' = toUint8ArrayStream(stream, response.body.source)
  /\ UNCHANGED <<pc, req, cloneReq, normalized, jsonCalls, engineCalls, engineOutcome,
                 errLog, response, rejected, completed, context, contextCalls,
                 events, startCalls, startup>>
  /\ UNCHANGED <<frames, probe>>

(* The host stops draining the body early and closes its iterator.         *)
StreamCancel ==
  /\ pc = "done"
  /\ stream.state = "open"
  /\ stream' = toUint8ArrayStreamReturn(stream)
  /\ UNCHANGED <<pc, req, cloneReq, normalized, jsonCalls, engineCalls, engineOutcome,
                 errLog, response, rejected, completed, context, contextCalls,
                 events, startCalls, startup>>
  /\ UNCHANGED <<frames, probe>>

(* The host takes the response; the per-invocation objects are dropped.    *)
Complete ==
  /\ pc = "done"
  /\ pc' = "idle"
  /\ req' = None
  /\ cloneReq' = None
  /\ normalized' = None
  /\ jsonCalls' = 0
  /\ engineCalls' = 0
  /\ engineOutcome' = None
  /\ errLog' = <<>>
  /\ response' = None
  /\ rejected' = FALSE
  /\ completed' = completed + 1
  /\ context' = None
  /\ contextCalls' = <<>>
  /\ events' = <<>>
  /\ stream' = NoStream
  /\ UNCHANGED <<startCalls, startup>>
  /\ UNCHANGED <<frames, probe>>

Next ==
  \/ startServerAndCreateHandler
  \/ \E r \in Requests : Invoke(r)
  \/ JsonSettle
  \/ \E o \in EngineOutcomes : EngineSettle(o)
  \/ Complete

Spec == Init /\ [][Next]_vars

(* The whole life of a handler, on fewer inputs: the background start      *)
(* settles, the engine invokes the context thunk, the host drains a        *)
(* chunked body.                                                           *)
LifeRequests ==
  [id : {"original"}, method : {Undefined, Str(S_GET), Str(S_POST)},
   url : {S_url_plain, S_url_bad},
   headers : {<<>>, <<[name |-> S_content_type, value |-> S_application_json]>>},
   body : {S_json_good, S_json_bad}, clone : {"ok", "throws", "missing"}, bodyUsed : {FALSE}]

LifeOutcomes ==
  {[t |-> "return", result |-> res] :
     res \in [t : {"result"}, status : {Undefined, Num(200), Num(600)},
              headers : {<<>>}, body : ResultBodies]}
  \cup {[t |-> "return", result |-> res] :
          res \in [t : {"result"}, status : {Undefined}, headers : {<<>>},
                   body : FailingBodies]}
  \cup {[t |-> "throw", error |-> e] : e \in {Null, InternalServerError(S_secret)}}

NextLife ==
  \/ startServerAndCreateHandler
  \/ \E ok \in BOOLEAN : StartSettle(ok)
  \/ \E r \in LifeRequests : Invoke(r)
  \/ JsonSettle
  \/ ContextCall
  \/ \E o \in LifeOutcomes : EngineSettle(o)
  \/ StreamNext
  \/ StreamCancel
  \/ Complete

SpecLife == Init /\ [][NextLife]_vars

----------------------------------------------------------------------------
(* The engine's background start, as the engine is documented to behave:   *)
(* executions wait until the start has settled, and every execution after  *)
(* a failed start reports the startup error.                               *)

StartupFailureOutcomes ==
  {[t |-> "return",
    result |-> [t |-> "result", status |-> Num(500), headers |-> <<>>,
                body |-> [kind |-> "complete", string |-> S_Internal_server_error]]],
   [t |-> "throw", error |-> Error("Error", S_secret)]}

EngineSettleStarted(o) ==
  /\ startup # "pending"
  /\ startup = "failed" => o \in StartupFailureOutcomes
  /\ EngineSettle(o)

NextStart ==
  \/ startServerAndCreateHandler
  \/ \E ok \in BOOLEAN : StartSettle(ok)
  \/ \E r \in LifeRequests : Invoke(r)
  \/ JsonSettle
  \/ \E o \in LifeOutcomes \cup StartupFailureOutcomes : EngineSettleStarted(o)
  \/ Complete

SpecStart == Init /\ [][NextStart]_vars

----------------------------------------------------------------------------
(* Concurrent invocations of one handler: each has its own call frame, and *)
(* the host interleaves them at their awaits.                              *)

ConcRequests ==
  {r \in [id : {"original"}, method : {Str(S_GET), Str(S_POST)}, url : {S_url_query},
          headers : {<<[name |-> S_content_type, value |-> S_application_json]>>},
          body : {S_json_good, S_json_bad}, clone : {"ok", "throws"},
          bodyUsed : {FALSE}] :
     /\ r.method = Str(S_GET) => r.body = S_json_bad
     /\ r.clone = "throws" => (r.method = Str(S_POST) /\ r.body = S_json_good)}

ConcOutcomes ==
  {[t |-> "return",
    result |-> [t |-> "result", status |-> Undefined, headers |-> <<>>, body |-> b]] :
      b \in {[kind |-> "complete", string |-> S_accent]}}
  \cup {[t |-> "throw", error |-> BadRequestError(S_other, TRUE)]}

(* The catch block or the success return of one frame (lines 161-203).     *)
frameFinish(f, tr) ==
  LET out == handlerSettle(tr)
  IN [f EXCEPT !.pc = "done",
               !.errLog = IF tr.threw THEN Append(@, tr.error) ELSE @,
               !.response = IF out.threw THEN None ELSE out.value]

(* The handler is entered with (r, ctx) and runs to its first await.       *)
frameInvoke(ctx, r) ==
  LET f == [NoFrame EXCEPT !.request = r, !.req = r, !.context = ctx]
      c == ReqClone(r)
      h == normalizeRequestHead(r)
  IN IF c.threw THEN frameFinish(f, c)
     ELSE IF h.threw THEN frameFinish([f EXCEPT !.cloneReq = c.value], h)
     ELSE IF parseBodyReads(r)
     THEN [f EXCEPT !.pc = "reading", !.req = [r EXCEPT !.bodyUsed = TRUE],
                    !.cloneReq = c.value, !.normalized = h.value]
     ELSE [f EXCEPT !.pc = "executing", !.cloneReq = c.value,
                    !.normalized = normalizeRequestBody(h.value, Return(Null)).value]

(* The frame resumes after await req.json().                               *)
frameJsonSettle(f) ==
  LET n == normalizeRequestBody(f.normalized, parseBodySettle(ReqJson(f.req)))
  IN IF n.threw THEN frameFinish([f EXCEPT !.normalized = None], n)
     ELSE [f EXCEPT !.pc = "executing", !.normalized = n.value]

(* The engine runs the context thunk of this frame.                        *)
frameContextCall(f) ==
  [f EXCEPT !.contextCalls =
              Append(@, contextThunk(f.context, f.req, f.cloneReq, f.normalized))]

(* The frame resumes after await executeHTTPGraphQLRequest.                *)
frameEngineSettle(f, o) == frameFinish([f EXCEPT !.outcome = o], executeSettle(o))

(* Mutant: the locals are kept in one place shared by all invocations.     *)
closure_Shared(fs, i) ==
  [fs[i] EXCEPT !.normalized = IF fs[1].normalized # None THEN fs[1].normalized ELSE @,
                !.cloneReq = IF fs[1].cloneReq # None THEN fs[1].cloneReq ELSE @]

(* What the continuation of invocation i reads: the bindings of its own    *)
(* call (const declarations are per call of the arrow function).           *)
closure(fs, i) == fs[i]

InvokeC(i, r) ==
  /\ pc = "idle"
  /\ frames[i].pc = "idle"
  /\ frames' = [frames EXCEPT ![i] = frameInvoke([invocationId |-> i], r)]
  /\ UNCHANGED <<pc, req, cloneReq, normalized, jsonCalls, engineCalls, engineOutcome,
                 errLog, response, rejected, completed, context, contextCalls,
                 events, stream, startCalls, startup, probe>>

JsonSettleC(i) ==
  /\ frames[i].pc = "reading"
  /\ frames' = [frames EXCEPT ![i] = frameJsonSettle(closure(frames, i))]
  /\ UNCHANGED <<pc, req, cloneReq, normalized, jsonCalls, engineCalls, engineOutcome,
                 errLog, response, rejected, completed, context, contextCalls,
                 events, stream, startCalls, startup, probe>>

ContextCallC(i) ==
  /\ frames[i].pc = "executing"
  /\ Len(frames[i].contextCalls) < MaxContextCalls
  /\ frames' = [frames EXCEPT ![i] = frameContextCall(closure(frames, i))]
  /\ UNCHANGED <<pc, req, cloneReq, normalized, jsonCalls, engineCalls, engineOutcome,
                 errLog, response, rejected, completed, context, contextCalls,
                 events, stream, startCalls, startup, probe>>

EngineSettleC(i, o) ==
  /\ frames[i].pc = "executing"
  /\ frames' = [frames EXCEPT ![i] = frameEngineSettle(closure(frames, i), o)]
  /\ UNCHANGED <<pc, req, cloneReq, normalized, jsonCalls, engineCalls, engineOutcome,
                 errLog, response, rejected, completed, context, contextCalls,
                 events, stream, startCalls, startup, probe>>

NextConc ==
  \/ startServerAndCreateHandler
  \/ \E i \in 1..MaxConcurrent, r \in ConcRequests : InvokeC(i, r)
  \/ \E i \in 1..MaxConcurrent : JsonSettleC(i)
  \/ \E i \in 1..MaxConcurrent : ContextCallC(i)
  \/ \E i \in 1..MaxConcurrent, o \in ConcOutcomes : EngineSettleC(i, o)

SpecConc == Init /\ [][NextConc]_vars

----------------------------------------------------------------------------
(* getErrorMessage applied to error values of every kind.                  *)

ErrorValues ==
  ThrownValues
  \cup {Str(<<>>), PlainObject(TRUE, Num(42)), PlainObject(TRUE, Null),
        PlainObject(TRUE, Str(<<>>)), Num(0), [t |-> "boolean", v |-> TRUE]}

FallbackArgs == {Undefined, Str(S_Malformed_URL), Str(S_Malformed_JSON), Str(S_other)}

InitPure ==
  /\ pc = "new"
  /\ req = None
  /\ cloneReq = None
  /\ normalized = None
  /\ jsonCalls = 0
  /\ engineCalls = 0
  /\ engineOutcome = None
  /\ errLog = <<>>
  /\ response = None
  /\ rejected = FALSE
  /\ completed = 0
  /\ context = None
  /\ contextCalls = <<>>
  /\ events = <<>>
  /\ stream = NoStream
  /\ startCalls = 0
  /\ startup = "none"
  /\ frames = [i \in 1..MaxConcurrent |-> NoFrame]
  /\ probe \in [error : ErrorValues, fallback : FallbackArgs, result : {None}]

getErrorMessageCall ==
  /\ probe.result = None
  /\ probe' = [probe EXCEPT
                 !.result = Str(getErrorMessage(probe.error,
                                                getErrorMessageFallback(probe.fallback)))]
  /\ UNCHANGED <<pc, req, cloneReq, normalized, jsonCalls, engineCalls, engineOutcome,
                 errLog, response, rejected, completed, context, contextCalls,
                 events, stream, startCalls, startup, frames>>

NextPure == getErrorMessageCall

SpecPure == InitPure /\ [][NextPure]_vars

----------------------------------------------------------------------------
(* Properties.                                                             *)

Done == pc = "done"

Caught == errLog[Len(errLog)]

ErrorPath == Done /\ errLog # <<>>

HasJsonContentType(r) ==
  \E i \in DOMAIN r.headers :
    /\ ToLowerCase(r.headers[i].name) = S_content_type
    /\ StartsWith(ToLowerCase(r.headers[i].value), S_application_json)

MethodAbsent(r) == r.method \in {Null, Undefined, Str(<<>>)}

BodyIncludes(resp, text) == resp.body.t = "string" /\ Includes(resp.body.v, text)

\* C1: every invocation of the handler completes by returning a response
\* object, whatever clone, normalization, the engine or status normalization
\* return or throw; it never rejects to the host.
C1_HandlerAlwaysReturns ==
  /\ ~rejected
  /\ Done => /\ response # None
             /\ response.status \in Int
             /\ response.body.t \in {"string", "stream"}

C1_Witness ==
  /\ Done
  /\ engineOutcome # None
  /\ engineOutcome.t = "throw"
  /\ engineOutcome.error = Null
  /\ response # None

InvalidJsonPost(r) ==
  /\ r.method = Str(S_POST)
  /\ ~URLParse(r.url).threw
  /\ HasJsonContentType(r)
  /\ JSONParse(r.body).threw

C5_NoBodyParse ==
  (req # None /\ ~(req.method = Str(S_POST) /\ HasJsonContentType(req))) =>
    /\ jsonCalls = 0
    /\ engineCalls > 0 => normalized.body = Null

C5_Witness ==
  /\ Done
  /\ engineCalls = 1
  /\ req.method = Str(S_POST)
  /\ req.headers = <<[name |-> S_Content_Type, value |-> S_text_plain]>>
  /\ req.body = S_json_good
  /\ normalized.body = Null
  /\ jsonCalls = 0

(* r2 differs from r1 at most in the letter case of header names and in    *)
(* the letter case of an application/json content-type value.              *)
CaseVariant(r1, r2) ==
  /\ r1.id = r2.id
  /\ r1.method = r2.method
  /\ r1.url = r2.url
  /\ r1.body = r2.body
  /\ r1.clone = r2.clone
  /\ Len(r1.headers) = Len(r2.headers)
  /\ \A i \in DOMAIN r1.headers :
       /\ ToLowerCase(r1.headers[i].name) = ToLowerCase(r2.headers[i].name)
       /\ \/ r1.headers[i].value = r2.headers[i].value
          \/ /\ ToLowerCase(r1.headers[i].value) = S_application_json
             /\ ToLowerCase(r2.headers[i].value) = S_application_json

(* The requests that differ from r in their headers only.                  *)
HeaderVariants(r) ==
  {[r EXCEPT !.headers = h, !.bodyUsed = FALSE] : h \in HeaderLists}

SameResponse(r2) ==
  Done => handler(r2, engineOutcome) = Return(response)

LowerValues(n) ==
  [n EXCEPT !.headers = [i \in DOMAIN @ |-> [@[i] EXCEPT !.value = ToLowerCase(@)]]]

\* C6 (as stated): two requests differing only in the letter case of the
\* content-type header's name or of its application/json value produce,
\* given the same engine behaviour, identical canonical requests and
\* identical handler responses.
C6_Original ==
  req # None =>
    \A r2 \in HeaderVariants(req) :
      CaseVariant(req, r2) =>
        /\ engineCalls > 0 => normalizeRequest(r2) = Return(normalized)
        /\ SameResponse(r2)

\* C6 (amended): such requests produce identical handler responses and
\* canonical requests with the same method, search, parsed body and header
\* names, whose header values are equal up to letter case (the content-type
\* value is forwarded in the case it was sent with).
C6_CaseInsensitive ==
  req # None =>
    \A r2 \in HeaderVariants(req) :
      CaseVariant(req, r2) =>
        LET n2 == normalizeRequest(r2)
        IN /\ engineCalls > 0 =>
                /\ ~n2.threw
                /\ LowerValues(n2.value) = LowerValues(normalized)
                /\ n2.value.body = normalized.body
           /\ SameResponse(r2)

C6_Witness ==
  /\ Done
  /\ engineCalls = 1
  /\ req.headers = <<[name |-> S_CoNtEnT_TyPe, value |-> S_Application_Json]>>
  /\ req.method = Str(S_POST)
  /\ normalized.body = [t |-> "json", text |-> S_json_good]
  /\ normalized.headers = <<[name |-> S_content_type, value |-> S_Application_Json]>>
  /\ response.status = 200

EngineStatusOutOfRange ==
  /\ Done
  /\ engineOutcome # None
  /\ engineOutcome.t = "return"
  /\ engineOutcome.result.t = "result"
  /\ engineOutcome.result.status.t = "number"
  /\ \/ engineOutcome.result.status.v < 100
     \/ engineOutcome.result.status.v > 599

\* C7: whenever the engine returns a status outside [100,599], with a
\* complete or a chunked body, the response has status 500 and body
\* "Internal Server Error"; the out-of-range value is never the status.
C7_Claim ==
  EngineStatusOutOfRange =>
    /\ response.status = 500
    /\ response.body = Str(S_Internal_Server_Error)
    /\ response.status # engineOutcome.result.status.v

Phrases4xx == {S_Bad_Request, S_Not_Found}

Phrases5xx == {S_Internal_Server_Error, S_Service_Unavailable}

\* C8: when the caught failure is an HttpError, the response status is its
\* statusCode and the body is its message if exposeMessage is set, otherwise
\* a generic phrase of the class of that status (4xx phrase for a 4xx
\* status, 5xx phrase for a 5xx status).
C8_Claim ==
  (ErrorPath /\ InstanceOfHttpError(Caught)) =>
    /\ response.status = Caught.statusCode
    /\ response.body.t = "string"
    /\ Caught.exposeMessage => response.body.v = Caught.message
    /\ (~Caught.exposeMessage /\ Caught.statusCode \in 400..499) => response.body.v \in Phrases4xx
    /\ (~Caught.exposeMessage /\ Caught.statusCode \in 500..599) => response.body.v \in Phrases5xx

\* C9: when the value thrown inside the handler is not an HttpError (a plain
\* Error, a string, an object with a message field, null or any other
\* value), the response is exactly status 500 with body
\* "Internal Server Error".
C9_UnknownErrorIs500 ==
  (ErrorPath /\ ~InstanceOfHttpError(Caught)) =>
    response = [status |-> 500, body |-> Str(S_Internal_Server_Error)]

C9_Witness ==
  /\ ErrorPath
  /\ engineOutcome # None
  /\ engineOutcome.t = "throw"
  /\ Caught = Error("Error", S_secret)
  /\ response = [status |-> 500, body |-> Str(S_Internal_Server_Error)]

(* The thrown value e carrying the message text m instead of its own.      *)
WithMessage(e, m) ==
  CASE e.t = "error" -> [e EXCEPT !.message = m]
    [] e.t = "string" -> Str(m)
    [] e.t = "object" /\ e.hasMessage -> [e EXCEPT !.message = Str(m)]
    [] OTHER -> e

EngineThrew == ErrorPath /\ engineOutcome # None /\ engineOutcome.t = "throw"

MessageIndependent ==
  \A m \in Messages :
    handler(req, [engineOutcome EXCEPT !.error = WithMessage(@, m)]) = Return(response)

\* C10 (as stated): for every 5xx response the error path produces, the body
\* does not depend on the caught error's message, HttpError instances with a
\* 5xx statusCode included.
C10_Original ==
  (EngineThrew /\ response.status \in 500..599) => MessageIndependent

\* C10 (amended): for every 5xx response the error path produces from a
\* caught value whose exposeMessage flag is not set (any value that is not an
\* HttpError, any InternalServerError, any HttpError built with exposeMessage
\* false), the body does not depend on the caught error's message; an
\* HttpError built with exposeMessage true has its message returned as the
\* body whatever its statusCode.
C10_NoLeakUnlessExposed ==
  /\ (EngineThrew /\ response.status \in 500..599
        /\ ~(InstanceOfHttpError(Caught) /\ Caught.exposeMessage))
       => MessageIndependent
  /\ (EngineThrew /\ InstanceOfHttpError(Caught) /\ Caught.exposeMessage)
       => response.body = Str(Caught.message)

C10_Witness ==
  /\ EngineThrew
  /\ Caught = InternalServerError(S_secret)
  /\ response.status = 500
  /\ response.body # Str(S_secret)

\* C11: every response the handler returns, on the success path and on every
\* error path (an HttpError of arbitrary statusCode included), has an integer
\* status in [100,599] and a body that is a string or a chunk sequence.
C11_Claim ==
  Done =>
    /\ response.status \in 100..599
    /\ response.body.t \in {"string", "stream"}

\* C12: each time the engine invokes the context thunk, the context function
\* is called with exactly { context: this invocation's context, req: the
\* duplicate captured before normalization (not the original request), body:
\* the parsed body placed in the canonical request given to the engine }.
C12_ContextArgument ==
  \A i \in DOMAIN contextCalls :
    /\ contextCalls[i] = [context |-> [invocationId |-> completed + 1],
                          req |-> [req EXCEPT !.id = "clone", !.bodyUsed = FALSE],
                          body |-> normalized.body]
    /\ contextCalls[i].req = cloneReq
    /\ contextCalls[i].req # req

C12_Witness ==
  /\ Len(contextCalls) = 2
  /\ completed = 1
  /\ req.bodyUsed
  /\ contextCalls[2].req.id = "clone"
  /\ contextCalls[2].body = [t |-> "json", text |-> S_json_good]

RECURSIVE Flatten(_)
Flatten(ss) == IF ss = <<>> THEN <<>> ELSE Head(ss) \o Flatten(Tail(ss))

ChunkedResponse == Done /\ response.body.t = "stream"

\* C13: for a chunked engine result yielding strings c1..cn, the response
\* body, fully drained, delivers exactly n byte chunks in the same order, the
\* i-th being the UTF-8 encoding of ci, so that their concatenation is the
\* UTF-8 encoding of c1..cn concatenated.
C13_ChunksEncoded ==
  ChunkedResponse =>
    LET source == engineOutcome.result.body.chunks
    IN /\ Len(stream.delivered) = stream.pulled
       /\ stream.pulled <= Len(source)
       /\ \A i \in DOMAIN stream.delivered : stream.delivered[i] = TextEncode(source[i])
       /\ stream.state = "done" =>
            /\ Len(stream.delivered) = Len(source)
            /\ Flatten(stream.delivered) = TextEncode(Flatten(source))

C13_Witness ==
  /\ ChunkedResponse
  /\ stream.state = "done"
  /\ engineOutcome.result.body.chunks = <<S_ok, S_accent>>
  /\ stream.delivered = <<S_ok, <<"0xC3", "0xA9", "t", "0xC3", "0xA9">> >>

NamedLike(headers, name) ==
  {i \in DOMAIN headers : ToLowerCase(headers[i].name) = ToLowerCase(name)}

ChunkedSuccess ==
  /\ ChunkedResponse
  /\ errLog = <<>>
  /\ engineOutcome.result.body.kind = "chunked"

\* C14: for a chunked engine result the response headers contain
\* Transfer-Encoding: chunked, overriding any transfer-encoding header of the
\* engine: compared case-insensitively by name there is exactly one
\* transfer-encoding entry, and the adapter adds no content-length.
C14_Claim ==
  ChunkedSuccess =>
    /\ \E i \in DOMAIN response.headers :
         response.headers[i] = [name |-> S_Transfer_Encoding, value |-> S_chunked]
    /\ Cardinality(NamedLike(response.headers, S_transfer_encoding)) = 1
    /\ Cardinality(NamedLike(response.headers, S_content_length))
         = Cardinality(NamedLike(engineOutcome.result.headers, S_content_length))

CompleteSuccess ==
  /\ Done
  /\ errLog = <<>>
  /\ engineOutcome # None
  /\ engineOutcome.result.body.kind = "complete"

ExpectedByteLength(s) ==
  CASE s = S_ok -> <<"1", "0">>
    [] s = S_accent -> <<"5">>

\* C15: for a complete engine result the response carries a content-length
\* header equal to the decimal UTF-8 byte length (not the character count) of
\* the returned body string, replacing any content-length of the engine, and
\* the header value matches the body actually returned.
C15_ContentLength ==
  CompleteSuccess =>
    /\ response.body = Str(engineOutcome.result.body.string)
    /\ Cardinality(NamedLike(response.headers, S_content_length)) = 1
    /\ \A i \in NamedLike(response.headers, S_content_length) :
         /\ response.headers[i].name = S_content_length
         /\ response.headers[i].value = ExpectedByteLength(response.body.v)

C15_Witness ==
  /\ CompleteSuccess
  /\ response.body = Str(S_accent)
  /\ \E i \in DOMAIN engineOutcome.result.headers :
       engineOutcome.result.headers[i] = [name |-> S_content_length, value |-> <<"9">>]
  /\ \E i \in DOMAIN response.headers :
       response.headers[i] = [name |-> S_content_length, value |-> <<"5">>]

EngineReturnedComplete ==
  /\ Done
  /\ engineOutcome # None
  /\ engineOutcome.t = "return"
  /\ engineOutcome.result.t = "result"
  /\ engineOutcome.result.body.kind = "complete"

\* C16: every engine result with a complete body and a status in [100,599]
\* is forwarded unchanged: same status, same body string, every engine header
\* other than content-length with its value; a missing status becomes 200.
C16_ForwardedUnchanged ==
  EngineReturnedComplete =>
    LET res == engineOutcome.result
    IN /\ (res.status.t = "number" /\ res.status.v \in 100..599) =>
            /\ response.status = res.status.v
            /\ response.body = Str(res.body.string)
            /\ \A i \in DOMAIN res.headers :
                 res.headers[i].name # S_content_length =>
                   \E j \in DOMAIN response.headers : response.headers[j] = res.headers[i]
       /\ res.status.t \in {"undefined", "null"} =>
            /\ response.status = 200
            /\ response.body = Str(res.body.string)
            /\ \A i \in DOMAIN res.headers :
                 res.headers[i].name # S_content_length =>
                   \E j \in DOMAIN response.headers : response.headers[j] = res.headers[i]

C16_Witness ==
  /\ EngineReturnedComplete
  /\ engineOutcome.result.status = Undefined
  /\ engineOutcome.result.headers = <<[name |-> S_content_type, value |-> S_application_json]>>
  /\ response.status = 200
  /\ response.body = Str(S_ok)
  /\ response.headers[1] = [name |-> S_content_type, value |-> S_application_json]

\* C17: the engine's background start is requested exactly once per
\* startServerAndCreateHandler call, at creation and before the handler is
\* returned; no handler invocation starts the engine again, and creation does
\* not fail when the background start fails.
C17_StartedOnce ==
  /\ pc = "new" => (startCalls = 0 /\ startup = "none")
  /\ pc # "new" => startCalls = 1
  /\ startup = "failed" => pc # "new"

C17_Witness ==
  /\ startup = "failed"
  /\ completed = 1
  /\ Done
  /\ startCalls = 1

\* C18: every BadRequestError has statusCode 400 and exposes its message
\* unless constructed with exposeMessage false; every InternalServerError has
\* statusCode 500 and exposeMessage false; a BadRequestError reaching the
\* catch yields status 400 with its message, or "Bad Request" when suppressed.
C18_ErrorClasses ==
  /\ \A m \in Messages :
       /\ InternalServerError(m).statusCode = 500
       /\ ~InternalServerError(m).exposeMessage
       /\ InternalServerError(m).message = m
       /\ \A x \in BOOLEAN :
            /\ BadRequestError(m, x).statusCode = 400
            /\ BadRequestError(m, x).exposeMessage = x
            /\ BadRequestError(m, x).message = m
  /\ (ErrorPath /\ Caught.t = "error" /\ Caught.class = "InternalServerError") =>
       (Caught.statusCode = 500 /\ ~Caught.exposeMessage /\ response.status = 500)
  /\ (ErrorPath /\ Caught.t = "error" /\ Caught.class = "BadRequestError") =>
       /\ Caught.statusCode = 400
       /\ engineOutcome = None => Caught.exposeMessage
       /\ response = [status |-> 400,
                      body |-> Str(IF Caught.exposeMessage THEN Caught.message
                                   ELSE S_Bad_Request)]

C18_Witness ==
  /\ ErrorPath
  /\ Caught = BadRequestError(S_secret, FALSE)
  /\ response = [status |-> 400, body |-> Str(S_Bad_Request)]

ExpectedDecimal(n) ==
  CASE n = -1 -> <<"-", "1">>
    [] n = 0 -> <<"0">>
    [] n = 99 -> <<"9", "9">>
    [] n = 600 -> <<"6", "0", "0">>

EngineReturnedResult ==
  /\ Done
  /\ engineOutcome # None
  /\ engineOutcome.t = "return"
  /\ engineOutcome.result.t = "result"

\* C19: normalizeStatusCode returns 200 for undefined and for null, returns
\* every integer in [100,599] unchanged (so applying it twice equals applying
\* it once), and throws InternalServerError with message
\* "Invalid status code: <n>" for every value below 100 or above 599,
\* 0 and negative values included.
C19_NormalizeStatusCode ==
  EngineReturnedResult =>
    LET status == engineOutcome.result.status
    IN /\ status.t \in {"undefined", "null"} =>
            (errLog = <<>> /\ response.status = 200)
       /\ (status.t = "number" /\ status.v \in 100..599) =>
            /\ errLog = <<>>
            /\ response.status = status.v
            /\ normalizeStatusCode(Num(response.status)) = Return(response.status)
       /\ (status.t = "number" /\ status.v \notin 100..599) =>
            /\ errLog # <<>>
            /\ Caught.class = "InternalServerError"
            /\ Caught.statusCode = 500
            /\ Caught.message = S_Invalid_status_code_ \o ExpectedDecimal(status.v)

C19_Witness ==
  /\ EngineReturnedResult
  /\ engineOutcome.result.status = Num(-1)
  /\ Caught.message = S_Invalid_status_code_ \o <<"-", "1">>

CloneBeforeRead ==
  \A j \in DOMAIN events :
    events[j] = "json" => \E i \in 1..(j - 1) : events[i] = "clone"

\* C20 (as stated): the duplicate is captured strictly before any read of the
\* original request's body; the request handed to the context factory is one
\* whose body has not been consumed, and reading its body yields the same
\* parsed value as the body argument.
C20_Original ==
  /\ CloneBeforeRead
  /\ \A k \in DOMAIN contextCalls :
       /\ ~contextCalls[k].req.bodyUsed
       /\ ReqJson(contextCalls[k].req) = Return(contextCalls[k].body)

\* C20 (amended): the duplicate is captured strictly before any read of the
\* original request's body; the request handed to the context factory is one
\* whose body has not been consumed; when the adapter read the body (POST
\* with a JSON content-type), reading the duplicate's body yields the same
\* parsed value as the body argument, and otherwise the body argument is null
\* whatever the duplicate's body holds.
C20_CloneUnconsumed ==
  /\ CloneBeforeRead
  /\ \A k \in DOMAIN contextCalls :
       /\ ~contextCalls[k].req.bodyUsed
       /\ jsonCalls > 0 => ReqJson(contextCalls[k].req) = Return(contextCalls[k].body)
       /\ jsonCalls = 0 => contextCalls[k].body = Null

C20_Witness ==
  /\ events = <<"clone", "json", "execute", "context">>
  /\ req.bodyUsed
  /\ ~contextCalls[1].req.bodyUsed
  /\ ReqJson(contextCalls[1].req) = Return(contextCalls[1].body)

ReadsBody(r) ==
  /\ r.method = Str(S_POST)
  /\ ~URLParse(r.url).threw
  /\ HasJsonContentType(r)

C26_LoggedOnce ==
  /\ pc \in {"reading", "executing"} => (errLog = <<>> /\ response = None)
  /\ Done =>
       LET tr == handlerTry(req, engineOutcome)
       IN IF tr.threw
          THEN /\ errLog = <<tr.error>>
               /\ response = catchBlock(tr.error)
          ELSE /\ errLog = <<>>
               /\ response = tr.value

C26_Witness ==
  /\ Done
  /\ engineOutcome # None
  /\ engineOutcome.t = "throw"
  /\ engineOutcome.error = BadRequestError(S_other, FALSE)
  /\ errLog = <<BadRequestError(S_other, FALSE)>>
  /\ response.status = 400

NormalizationFails(r) == MethodAbsent(r) \/ URLParse(r.url).threw \/ InvalidJsonPost(r)

\* C27: when cloning or normalization fails the engine is never called and
\* the context function never runs; the context function runs only inside an
\* engine call, after executeHTTPGraphQLRequest was called.
C27_NoEngineOnFailure ==
  /\ (Done /\ (req.clone # "ok" \/ NormalizationFails(req))) =>
       /\ engineCalls = 0
       /\ engineOutcome = None
       /\ contextCalls = <<>>
       /\ \A i \in DOMAIN events : events[i] \notin {"execute", "context"}
  /\ contextCalls # <<>> => engineCalls = 1
  /\ \A i \in DOMAIN events :
       events[i] = "context" => \E j \in 1..(i - 1) : events[j] = "execute"

C27_Witness ==
  /\ Done
  /\ req.clone = "ok"
  /\ InvalidJsonPost(req)
  /\ jsonCalls = 1
  /\ engineCalls = 0
  /\ contextCalls = <<>>
  /\ events = <<"clone", "json">>

AllInvalid(r) ==
  /\ URLParse(r.url).threw
  /\ HasJsonContentType(r)
  /\ JSONParse(r.body).threw

DemandDriven ==
  /\ stream.requested = 0 => (stream.pulled = 0 /\ stream.delivered = <<>>)
  /\ stream.pulled <= stream.requested
  /\ stream.sourceReturned => stream.state = "cancelled"

NoPullAfterCancel ==
  (stream.state = "cancelled" /\ stream'.state = "cancelled") =>
    (stream'.pulled = stream.pulled /\ stream'.delivered = stream.delivered)

\* C24 (as stated): no chunk is pulled before the platform requests the first
\* one, the chunks pulled never outnumber the chunks requested, and once the
\* platform cancels no further chunk is pulled and the engine's sequence is
\* told to finish.
C24_Original ==
  [][/\ DemandDriven'
     /\ NoPullAfterCancel
     /\ stream'.state = "cancelled" => stream'.sourceReturned]_vars

\* C24 (amended): the same, except that the engine's sequence is told to
\* finish only when the platform had requested at least one chunk before it
\* cancelled; cancelled before the first request, the sequence is never
\* touched.
C24_DemandDriven ==
  [][/\ DemandDriven'
     /\ NoPullAfterCancel
     /\ (stream.state = "open" /\ stream'.state = "cancelled") =>
          (stream'.sourceReturned <=> stream.requested > 0)
     /\ (stream.state = "cancelled" /\ stream'.state = "cancelled") =>
          stream'.sourceReturned = stream.sourceReturned]_vars

C24_Witness ==
  /\ stream.state = "cancelled"
  /\ stream.sourceReturned
  /\ stream.pulled = 1
  /\ stream.requested = 3
  /\ response.body.source.chunks = <<S_ok, S_accent>>

\* C29: for a chunked result the handler returns before any chunk is
\* produced; a failure of the engine's chunk sequence while the host drains
\* the body is not logged through context.error, leaves the returned response
\* as it was, and reaches the consumer after the chunks already delivered.
C29_LateFailure ==
  /\ (Done /\ stream.requested = 0) => (stream.pulled = 0 /\ stream.delivered = <<>>)
  /\ (Done /\ response.body.t = "stream") =>
       /\ errLog = <<>>
       /\ ~rejected
       /\ response = translateResult(engineOutcome.result).value
       /\ stream.state = "done" => ~response.body.source.throws
       /\ stream.state = "failed" =>
            /\ response.body.source.throws
            /\ stream.error = response.body.source.error
            /\ Len(stream.delivered) = Len(response.body.source.chunks)
            /\ \A i \in DOMAIN stream.delivered :
                 stream.delivered[i] = TextEncode(response.body.source.chunks[i])

C29_Witness ==
  /\ Done
  /\ stream.state = "failed"
  /\ stream.delivered = <<S_ok>>
  /\ stream.error = Error("Error", S_secret)
  /\ response.status = 200
  /\ errLog = <<>>


\* C25: the handler calls the engine whatever the state of the background
\* start, and once the start has failed every invocation ends with a failure
\* response: never a success status, never an exception to the host.
C25_FailsClosed ==
  /\ ~rejected
  /\ (pc \in {"executing", "done"} /\ req.clone = "ok" /\ ~NormalizationFails(req)) =>
       engineCalls = 1
  /\ (Done /\ startup = "failed") => response.status \in 400..599

C25_Witness ==
  /\ Done
  /\ startup = "failed"
  /\ completed = 1
  /\ engineCalls = 1
  /\ engineOutcome.t = "return"
  /\ response.status = 500

\* C23: whatever the interleaving of concurrent invocations, each one's
\* canonical request, context-function arguments, logged error and response
\* are those of the handler run alone on its own request and engine outcome.
C23_Isolation ==
  \A i \in 1..MaxConcurrent :
    LET f == frames[i]
    IN /\ f.pc = "executing" => f.normalized = normalizeRequest(f.request).value
       /\ \A k \in DOMAIN f.contextCalls :
            f.contextCalls[k] = [context |-> [invocationId |-> i],
                                 req |-> [f.request EXCEPT !.id = "clone"],
                                 body |-> normalizeRequest(f.request).value.body]
       /\ f.pc = "done" =>
            /\ f.response = handler(f.request, f.outcome).value
            /\ f.errLog = (IF handlerTry(f.request, f.outcome).threw
                           THEN <<handlerTry(f.request, f.outcome).error>> ELSE <<>>)

C23_Witness ==
  /\ frames[1].pc = "done"
  /\ frames[1].request.body = S_json_bad
  /\ frames[1].response.status = 400
  /\ frames[2].pc = "done"
  /\ frames[2].request.body = S_json_good
  /\ frames[2].request.method = Str(S_POST)
  /\ Len(frames[2].contextCalls) = 1
  /\ frames[2].response.body = Str(S_accent)

\* C30: getErrorMessage returns the message of an Error instance, a string
\* itself, the message field of a non-null object when that field is a
\* string, and otherwise the fallback (by default "An unexpected error
\* occurred"): for null, undefined, numbers, booleans and objects whose
\* message is absent or not a string.
C30_GetErrorMessage ==
  (probe # None /\ probe.result # None) =>
    LET e == probe.error
        fb == IF probe.fallback = Undefined THEN S_An_unexpected_error_occurred
              ELSE probe.fallback.v
    IN /\ e.t = "error" => probe.result = Str(e.message)
       /\ e.t = "string" => probe.result = e
       /\ (e.t = "object" /\ e.hasMessage /\ e.message.t = "string") =>
            probe.result = e.message
       /\ (e.t = "object" /\ ~(e.hasMessage /\ e.message.t = "string")) =>
            probe.result = Str(fb)
       /\ e.t \in {"null", "undefined", "number", "boolean"} => probe.result = Str(fb)

C30_Witness ==
  /\ probe # None
  /\ probe.error = PlainObject(TRUE, Str(S_other))
  /\ probe.fallback = Str(S_Malformed_JSON)
  /\ probe.result = Str(S_other)


====
